---- MODULE Spec2Model ----
(***************************************************************************)
(* Hospital discovery pipeline of ashishling/BlrExpansion.                 *)
(*                                                                         *)
(*   src/fetch_eye_hospitals_comprehensive.py                              *)
(*       fetch_hospitals_grid_search, fetch_hospitals_text_search,         *)
(*       combine_results, save_hospitals_to_csv, __main__                  *)
(*   src/fetch_eye_hospitals.py                                            *)
(*       fetch_eye_hospitals_from_api, get_eye_hospitals, __main__         *)
(*   src/test_api.py                                                       *)
(*   src/surgery_dashboard.py                                              *)
(*       the eye-hospital filters, markers and management list             *)
(*                                                                         *)
(* The programs are sequential.  Every external call (places_nearby,       *)
(* places_text, place) is one step whose outcome, an exception or a        *)
(* response, is chosen nondeterministically from small sets.  A Python     *)
(* value that may be None or a missing dictionary key is an option: << >>  *)
(* for None/missing, <<v>> for the value v.  A table (pandas DataFrame) is *)
(* the sequence of its rows; a dict is the sequence of its values in       *)
(* insertion order, looked up by key.                                      *)
(***************************************************************************)
EXTENDS Integers, Sequences, FiniteSets, TLC

(***************************************************************************)
(* Bounds of the model.                                                    *)
(***************************************************************************)
\* GRID_POINTS has 13 zones and KEYWORDS 8 keywords in the source; the model
\* runs the same loops over the first NumZones zones and NumKeywords keywords.
NumZones == 2
NumKeywords == 2
\* Largest number of results on one page of a search response.
MaxPageLen == 2
\* fetch_eye_hospitals_from_api has no page cap and no duplicate test: the
\* modelled API returns results on the first MaxApiPages pages of the query
\* only, and hands out no continuation token from page MaxApiCalls on.
MaxApiPages == 2
MaxApiCalls == 4
\* Largest number of rows of the hospitals table the dashboard loads.
MaxHospitals == 3

(***************************************************************************)
(* Program constants.                                                      *)
(***************************************************************************)
\* "if not next_page_token or page_num >= 3" (grid), ">= 2" (text)
GridMaxPages == 3
TextMaxPages == 2
\* __main__ passes min_reviews=100 to every fetch function
CliMinReviews == 100
\* "if distance > 50" in fetch_hospitals_text_search
MaxDistanceKm == 50
\* __main__ passes search_radius=15000 to fetch_hospitals_grid_search
SearchRadius == 15000
\* "if total_requests % 10 == 0: time.sleep(1)"
RateLimitEvery == 10
\* surgery_dashboard.py: "value=4.0" of the rating slider (ratings are kept
\* times 10) and "value=500" of the review-count slider
DefaultMinRating == 40
DefaultMinReviews == 500

None == << >>
Some(v) == <<v>>
\* dict.get(key, default) on an optional field
Get(opt, default) == IF opt = None THEN default ELSE opt[1]

PlaceIds == {"A", "B"}
\* min_reviews arguments of get_eye_hospitals: the CLI's value, one that
\* keeps part of the sample data and one above every sample review_count
MinReviewsArgs == {CliMinReviews, 1000, 2500}
\* user_ratings_total of a details response: missing, or a count
RatingsTotals == {None, Some(100), Some(500)}
\* geometry.location of a response: missing, or a point given by its
\* distance in km from BANGALORE_CENTER
SearchLocations == {None, Some(49), Some(50), Some(51)}
\* geometry.location of the details response for a place function f found.
\* The response carries its own geometry, which need not be the one of the
\* search result: for a place the text search found it may lie beyond
\* MaxDistanceKm, while a place found by a nearby search lies within the
\* search radius.
DetailLocations(f) ==
    IF f = "text" THEN {None, Some(10), Some(51)} ELSE {None, Some(10)}

VARIABLES
    pc,               \* position of the running code
    fn,               \* code being run: "main" (__main__ of the comprehensive
                      \* fetcher), "grid", "text" (its two fetch functions),
                      \* "get" (get_eye_hospitals and the __main__ calling it),
                      \* "api" (fetch_eye_hospitals_from_api), "test"
                      \* (test_api.py), "dashboard" (surgery_dashboard.py)
    use_grid_only,    \* '--grid-only' in sys.argv
    use_text_only,    \* '--text-only' in sys.argv
    all_results,      \* __main__: list of the tables returned so far
    final_df,         \* __main__: None until assigned, then Some(table)
    csv_written,      \* whether df.to_csv has run
    min_reviews,      \* argument of the running fetch function
    zone_idx,         \* enumerate(GRID_POINTS, 1)
    keyword_idx,      \* position in KEYWORDS, from 1
    next_page_token,  \* None or Some(token)
    page_num,
    places_result,    \* last search response
    item_idx,         \* position of the for loop in places_result['results']
    all_hospitals,    \* dict place_id -> hospital_info, as its values in insertion order
    total_requests,
    returned,         \* the value the fetch function returned: None, or Some(table)
    use_sample,       \* '--sample' in sys.argv (fetch_eye_hospitals.py)
    hospitals,        \* fetch_eye_hospitals_from_api: list of hospital_info
    request_count,    \* fetch_eye_hospitals_from_api
    hospitals_df,     \* __main__ of fetch_eye_hospitals.py: None until assigned
    api_key,          \* os.getenv('GOOGLE_MAPS_API_KEY'): None or Some(string)
    client_created,   \* googlemaps.Client(key=API_KEY) has returned
    exit_status,      \* test_api.py: None while running, then Some(status)
    \* surgery_dashboard.py
    hospitals_table,  \* "hospitals", the table load_hospitals() returned
    show_hospitals,   \* the checkbox "Show Eye Hospitals on Map"
    hospital_min_rating,   \* the slider, rating times 10
    hospital_min_reviews,  \* the slider
    excluded_hospitals,    \* st.session_state: None while the key is not
                           \* there, then Some(set of names)
    pressed,          \* the Remove button the user pressed, None or Some(idx)
    filtered_hospitals,          \* index labels of the markers on the map
    filtered_hospitals_display,  \* index labels of the rows of the management list
    \* history variables (not program state)
    search_failed,    \* a search call has raised in this run of the function,
                      \* after at least one row had been stored
    details_failures, \* number of details calls that raised on the current page
    accepted,         \* rows stored so far in this run of the function
    first_calls,      \* <<fn, zone, keyword>> of every first-page search call issued
    call_log,         \* the first-page search calls in the order they were issued
    first_seen,       \* grid search: per place_id, None or Some(<<zone, keyword>>)
                      \* of the first query whose search results held it; kept in
                      \* the runs of ProvenanceSpec only, NotRecorded elsewhere
    last_search,      \* how the latest search call ended: "raised", "empty" (a
                      \* response with no results), "page"; "none" before the first
    last_sleep,       \* milliseconds of the latest time.sleep that has run since
                      \* the latest external call; 0 if none has
    token_hist        \* per page of the current query: did the response carry a token

mainVars == <<use_grid_only, use_text_only, all_results, final_df, csv_written>>
loopVars == <<zone_idx, keyword_idx, next_page_token, page_num, places_result, item_idx>>
histVars == <<search_failed, details_failures, accepted, first_calls, call_log,
              first_seen, last_search, last_sleep, token_hist>>
basicVars == <<use_sample, hospitals, request_count, hospitals_df>>
envVars == <<api_key, client_created, exit_status>>
dashVars == <<hospitals_table, show_hospitals, hospital_min_rating, hospital_min_reviews,
              excluded_hospitals, pressed, filtered_hospitals,
              filtered_hospitals_display>>
\* what the loops of the comprehensive fetch functions never write
callVars == <<fn, mainVars, returned, min_reviews, basicVars, envVars, dashVars>>
vars == <<pc, fn, mainVars, min_reviews, loopVars, all_hospitals, total_requests,
          returned, basicVars, envVars, dashVars, histVars>>

(***************************************************************************)
(* The external API.                                                       *)
(***************************************************************************)
\* sequences over S of length lo..hi
SeqsUpTo(S, lo, hi) == UNION {[1..n -> S] : n \in lo..hi}

\* A result item of places_nearby: the nearby search is bounded by radius,
\* and the grid code reads nothing but place_id.
NearbyPlaces == [place_id : PlaceIds, location : {Some(10)}]
\* A result item of places_text: free text has no locality guarantee.
TextPlaces == [place_id : PlaceIds, location : SearchLocations]

SearchResponses(f) ==
    [results : SeqsUpTo(IF f = "text" THEN TextPlaces ELSE NearbyPlaces, 0, MaxPageLen),
     next_page_token : {None, Some("token")}]

\* details['result'] of gmaps.place
DetailsResults(f) ==
    [user_ratings_total : RatingsTotals, location : DetailLocations(f)]

NoResponse == [results |-> << >>, next_page_token |-> None]

(***************************************************************************)
(* Tables and dicts.                                                       *)
(***************************************************************************)
Rows(t) == {t[i] : i \in 1..Len(t)}
Ids(t) == {t[i].place_id : i \in 1..Len(t)}

\* "key in dict"
HasKey(dict, id) == \E i \in 1..Len(dict) : dict[i].place_id = id

\* "all_hospitals[place_id] = hospital_info": a new key goes last, an
\* existing key keeps its position and takes the new value
DictSet(dict, id, info) ==
    IF \E i \in 1..Len(dict) : dict[i].place_id = id
    THEN [i \in 1..Len(dict) |-> IF dict[i].place_id = id THEN info ELSE dict[i]]
    ELSE Append(dict, info)

IsSortedDesc(t) == \A i \in 1..(Len(t) - 1) : t[i].review_count >= t[i + 1].review_count

\* mutant: the table is left in insertion order
Unsorted(t) == {t}

\* t without its i-th row
RemoveAt(t, i) == SubSeq(t, 1, i - 1) \o SubSeq(t, i + 1, Len(t))

\* df.sort_values('review_count', ascending=False): pandas sorts with its
\* default kind='quicksort', which is not stable, so rows with equal
\* review_count may come out in any order.  The set of possible results:
\* any row with the largest review_count first, then the rest sorted.
RECURSIVE SortValues(_)
SortValues(t) ==
    IF t = << >> THEN {<< >>}
    ELSE UNION {{<<t[i]>> \o rest : rest \in SortValues(RemoveAt(t, i))} :
                i \in {j \in 1..Len(t) :
                          \A k \in 1..Len(t) : t[j].review_count >= t[k].review_count}}

\* mutant: no row is dropped
DropNothing(t) == t

\* df.drop_duplicates(subset=['place_id'], keep='first')
RECURSIVE DropDuplicates(_)
DropDuplicates(t) ==
    IF t = << >> THEN << >>
    ELSE LET front == DropDuplicates(SubSeq(t, 1, Len(t) - 1))
             last == t[Len(t)]
         IN IF HasKey(front, last.place_id) THEN front ELSE Append(front, last)

(***************************************************************************)
(* fetch_hospitals_grid_search and fetch_hospitals_text_search.            *)
(* The two functions share their loop structure; fn tells them apart.      *)
(***************************************************************************)
\* mutant: the review filter is not applied
PassesFilterAlways(review_count, minimum) == TRUE

\* "if review_count >= min_reviews"
PassesFilter(review_count, minimum) == review_count >= minimum

\* "page_num >= 3" in the grid search, "page_num >= 2" in the text search
PageCap(f) == IF f = "grid" THEN GridMaxPages ELSE TextMaxPages

\* mutant: the page cap is not tested
StopPagingNoCap(token, page, f) == token = None

\* mutant: a response with no results is handled like any page
NoResultsNever(response) == FALSE

\* "if not places_result.get('results'): break"
NoResults(response) == response.results = << >>

\* "if not next_page_token or page_num >= cap: break"
StopPaging(token, page, f) == token = None \/ page >= PageCap(f)

\* mutant: a point at exactly the threshold is rejected too
TooFarInclusive(location) == location[1] >= MaxDistanceKm

\* "if distance > 50: continue"; a point is given by its distance from
\* BANGALORE_CENTER, which is what haversine_distance returns for it
TooFar(location) == location[1] > MaxDistanceKm

\* mutant: the record is stamped with the first keyword, not the current one
HospitalInfoFirstKeyword(f, id, place_data, zone, keyword) ==
    [place_id |-> id,
     review_count |-> Get(place_data.user_ratings_total, 0),
     latitude |-> place_data.location,
     zone |-> IF f = "grid" THEN Some(zone) ELSE None,
     keyword_found |-> IF f = "grid" THEN Some(1) ELSE None,
     search_method |-> IF f = "text" THEN Some("text_search") ELSE None]

\* the hospital_info dict literal; a column the function does not write is None
HospitalInfo(f, id, place_data, zone, keyword) ==
    [place_id |-> id,
     review_count |-> Get(place_data.user_ratings_total, 0),
     latitude |-> place_data.location,
     zone |-> IF f = "grid" THEN Some(zone) ELSE None,
     keyword_found |-> IF f = "grid" THEN Some(keyword) ELSE None,
     search_method |-> IF f = "text" THEN Some("text_search") ELSE None]

\* place_data['geometry']['location']['lat'] raises KeyError without geometry
GeometryRaises(place_data) == place_data.location = None

InFetch == fn \in {"grid", "text"}

\* mutant: the pause between two pages is left out
NoSettlingSleep(f) == 0

\* the pause before the next page of a query is fetched, in milliseconds:
\* "time.sleep(1)" in the grid and the text search, "time.sleep(2)" in
\* fetch_eye_hospitals_from_api
SettlingSleep(f) == IF f = "api" THEN 2000 ELSE 1000

\* "if total_requests % 10 == 0: time.sleep(1)" after a details call has
\* been handled: the latest sleep since that call
RateLimitSleep(counter) == IF counter % RateLimitEvery = 0 THEN 1000 ELSE 0

\* last_sleep once the current query has been left, where current is its
\* value before: the grid search ends a zone with "time.sleep(0.5)"
AfterQuery(current) ==
    IF fn = "grid" /\ keyword_idx = NumKeywords THEN 500 ELSE current

\* mutant: the loops are nested the other way round, keywords outside and
\* zones inside
EndQueryKeywordMajor ==
    /\ places_result' = NoResponse
    /\ item_idx' = 0
    /\ token_hist' = << >>
    /\ next_page_token' = None
    /\ page_num' = 0
    /\ IF fn = "grid" /\ zone_idx < NumZones
       THEN /\ zone_idx' = zone_idx + 1
            /\ keyword_idx' = keyword_idx
            /\ pc' = "search"
       ELSE IF keyword_idx < NumKeywords
       THEN /\ keyword_idx' = keyword_idx + 1
            /\ zone_idx' = (IF fn = "grid" THEN 1 ELSE zone_idx)
            /\ pc' = "search"
       ELSE /\ UNCHANGED <<keyword_idx, zone_idx>>
            /\ pc' = "return"

\* Leave the current query ("break" out of the while loop, or "continue" in
\* the except clause of the keyword loop) and set up the next one, or leave
\* the loops.  The page variables of the query that ended are dead and are
\* cleared.
EndQuery ==
    /\ places_result' = NoResponse
    /\ item_idx' = 0
    /\ token_hist' = << >>
    /\ next_page_token' = None
    /\ page_num' = 0
    /\ IF keyword_idx < NumKeywords
       THEN /\ keyword_idx' = keyword_idx + 1
            /\ zone_idx' = zone_idx
            /\ pc' = "search"
       ELSE IF fn = "grid" /\ zone_idx < NumZones
       THEN /\ keyword_idx' = 1
            /\ zone_idx' = zone_idx + 1
            /\ pc' = "search"
       ELSE /\ UNCHANGED <<keyword_idx, zone_idx>>
            /\ pc' = "return"

\* the arguments of a first-page search call that tell the queries apart:
\* "location=(lat, lon), radius=search_radius, keyword=keyword" (the text
\* search passes the keyword only; its zone is 0 and it has no radius)
SearchCall(f, zone, keyword) ==
    [zone |-> zone, keyword |-> keyword,
     radius |-> IF f = "grid" THEN Some(SearchRadius) ELSE None]

\* the query whose first-page call is being issued
NoteFirstCall ==
    /\ first_calls' = IF page_num = 0
                      THEN first_calls \cup {<<fn, zone_idx, keyword_idx>>}
                      ELSE first_calls
    /\ call_log' = IF page_num = 0
                   THEN Append(call_log, SearchCall(fn, zone_idx, keyword_idx))
                   ELSE call_log

\* mutant: the store is emptied when a search call fails
QueryExceptionDiscards ==
    /\ EndQuery
    /\ all_hospitals' = << >>

\* mutant: a failed search call ends the loops instead of the query
QueryExceptionAborts ==
    /\ places_result' = NoResponse
    /\ item_idx' = 0
    /\ token_hist' = << >>
    /\ next_page_token' = None
    /\ page_num' = 0
    /\ pc' = "return"
    /\ UNCHANGED <<keyword_idx, zone_idx, all_hospitals>>

\* the except clause of the keyword loop, "except Exception: continue": the
\* query is given up and the loop goes on with the next one; the store is
\* not touched
QueryExceptionHandler ==
    /\ EndQuery
    /\ UNCHANGED all_hospitals

\* the value of first_seen in a run that keeps no record of the sightings
NotRecorded == [id \in {} |-> None]

\* the places the response of the current grid query holds are sighted, the
\* new ones for the first time
NoteSightings(response) ==
    IF first_seen = NotRecorded \/ fn # "grid" THEN first_seen
    ELSE [id \in PlaceIds |->
            IF /\ first_seen[id] = None
               /\ \E i \in 1..Len(response.results) : response.results[i].place_id = id
            THEN Some(<<zone_idx, keyword_idx>>)
            ELSE first_seen[id]]

\* gmaps.places_nearby / gmaps.places_text raises
SearchRaises ==
    /\ InFetch /\ pc = "search"
    /\ NoteFirstCall
    /\ search_failed' = (search_failed \/ all_hospitals # << >>)
    /\ details_failures' = 0
    /\ QueryExceptionHandler
    /\ last_sleep' = AfterQuery(0)
    /\ last_search' = "raised"
    /\ UNCHANGED <<callVars, total_requests, accepted, first_seen>>

\* the search call returns a page
SearchReturns ==
    /\ InFetch /\ pc = "search"
    /\ \E resp \in SearchResponses(fn) :
        /\ NoteFirstCall
        /\ first_seen' = NoteSightings(resp)
        /\ total_requests' = total_requests + 1
        /\ IF NoResults(resp)
           THEN /\ EndQuery
                /\ last_sleep' = AfterQuery(0)
                /\ last_search' = "empty"
           ELSE /\ page_num' = page_num + 1
                /\ last_search' = "page"
                /\ last_sleep' = 0
                /\ places_result' = resp
                /\ item_idx' = 1
                /\ token_hist' = Append(token_hist, resp.next_page_token # None)
                /\ pc' = "item"
                /\ UNCHANGED <<zone_idx, keyword_idx, next_page_token>>
    /\ details_failures' = 0
    /\ UNCHANGED <<callVars, all_hospitals, search_failed, accepted>>

\* the result item the for loop is at
Place == places_result.results[item_idx]

\* next iteration of "for place in results", or fall out of the loop to the
\* continuation-token check
NextItem ==
    IF item_idx < Len(places_result.results)
    THEN /\ item_idx' = item_idx + 1
         /\ pc' = "item"
    ELSE /\ item_idx' = item_idx
         /\ pc' = "token"

\* mutant: an exception raised while an item is processed ends the query
ItemExceptionEndsQuery == EndQuery

\* what the except clause of the for loop does with an exception raised
\* while an item is processed: "except Exception: continue"
ItemExceptionHandler ==
    /\ NextItem
    /\ UNCHANGED <<zone_idx, keyword_idx, next_page_token, page_num, places_result,
                   token_hist>>

\* text search only: the result has no geometry.location, lat and lon are
\* None and haversine_distance raises TypeError in radians()
ItemNoLocation ==
    /\ fn = "text" /\ pc = "item"
    /\ Place.location = None
    /\ ItemExceptionHandler
    /\ UNCHANGED <<callVars, all_hospitals, total_requests,
                   search_failed, details_failures, accepted, first_calls,
                   call_log, first_seen, last_sleep, last_search>>

\* text search only: "if distance > 50: continue"
ItemTooFar ==
    /\ fn = "text" /\ pc = "item"
    /\ Place.location # None
    /\ TooFar(Place.location)
    /\ NextItem
    /\ UNCHANGED <<callVars, zone_idx, keyword_idx, next_page_token,
                   page_num, places_result, all_hospitals, total_requests, histVars>>

\* the item reaches the "place_id in all_hospitals" test
ItemInRange ==
    /\ InFetch /\ pc = "item"
    /\ fn = "text" => (Place.location # None /\ ~TooFar(Place.location))

\* mutant: a place already stored is fetched and stored again
NeverFound(dict, id) == FALSE

\* mutant: the identifier is compared with the latest record only
AlreadyFoundLatest(dict, id) == dict # << >> /\ dict[Len(dict)].place_id = id

\* "if place_id in all_hospitals" (the "Skip if already found" test)
AlreadyFound(dict, id) == HasKey(dict, id)

\* "if place_id in all_hospitals: continue"
ItemAlreadyFound ==
    /\ ItemInRange
    /\ AlreadyFound(all_hospitals, Place.place_id)
    /\ NextItem
    /\ UNCHANGED <<callVars, zone_idx, keyword_idx, next_page_token,
                   page_num, places_result, all_hospitals, total_requests, histVars>>

\* gmaps.place raises
DetailsRaises ==
    /\ ItemInRange
    /\ ~AlreadyFound(all_hospitals, Place.place_id)
    /\ details_failures' = details_failures + 1
    /\ ItemExceptionHandler
    /\ last_sleep' = 0
    /\ UNCHANGED <<callVars, all_hospitals, total_requests,
                   search_failed, accepted, first_calls,
                   call_log, first_seen, last_search>>

\* gmaps.place returns; the review filter, the hospital_info literal, the
\* insertion.  (The rate-limit sleep that follows changes no variable.)
DetailsReturns ==
    /\ ItemInRange
    /\ ~AlreadyFound(all_hospitals, Place.place_id)
    /\ \E place_data \in DetailsResults(fn) :
        LET review_count == Get(place_data.user_ratings_total, 0)
            hospital_info ==
                HospitalInfo(fn, Place.place_id, place_data, zone_idx, keyword_idx)
        IN /\ total_requests' = total_requests + 1
           /\ IF PassesFilter(review_count, min_reviews)
              THEN IF GeometryRaises(place_data)
                   THEN \* KeyError inside the literal, caught by the item's
                        \* except: the rate-limit test is not reached
                        /\ ItemExceptionHandler
                        /\ last_sleep' = 0
                        /\ UNCHANGED <<all_hospitals, accepted>>
                   ELSE /\ all_hospitals' =
                               DictSet(all_hospitals, Place.place_id, hospital_info)
                        /\ accepted' = accepted \cup {hospital_info}
                        /\ last_sleep' = RateLimitSleep(total_requests + 1)
                        /\ NextItem
                        /\ UNCHANGED <<zone_idx, keyword_idx, next_page_token, page_num,
                                       places_result, token_hist>>
              ELSE /\ NextItem
                   /\ last_sleep' = RateLimitSleep(total_requests + 1)
                   /\ UNCHANGED <<all_hospitals, accepted, zone_idx, keyword_idx,
                                  next_page_token, page_num, places_result, token_hist>>
    /\ UNCHANGED <<callVars, search_failed, details_failures, first_calls,
                   call_log, first_seen, last_search>>

\* after the for loop: read the continuation token; stop the query or sleep
\* one second and fetch the next page
CheckNextPage ==
    /\ InFetch /\ pc = "token"
    /\ IF StopPaging(places_result.next_page_token, page_num, fn)
       THEN /\ EndQuery
            /\ details_failures' = 0
            /\ last_sleep' = AfterQuery(last_sleep)
       ELSE /\ next_page_token' = places_result.next_page_token
            /\ last_sleep' = SettlingSleep(fn)
            /\ pc' = "search"
            /\ UNCHANGED details_failures
            \* the page just processed is dead from here on and is cleared
            /\ places_result' = NoResponse
            /\ item_idx' = 0
            /\ UNCHANGED <<zone_idx, keyword_idx, page_num, token_hist>>
    /\ UNCHANGED <<callVars, all_hospitals, total_requests,
                   search_failed, accepted, first_calls,
                   call_log, first_seen, last_search>>

\* the table a fetch function returns: the dict's values sorted, or an empty
\* DataFrame
Materialize(dict) == IF dict # << >> THEN SortValues(dict) ELSE {<< >>}

\* "if all_hospitals: ... return df / else: return pd.DataFrame()"
ReturnTable ==
    /\ InFetch /\ pc = "return"
    /\ \E df \in Materialize(all_hospitals) :
        returned' = Some(df)
    /\ pc' = "returned"
    /\ UNCHANGED <<fn, mainVars, min_reviews, loopVars, all_hospitals, total_requests,
                   basicVars, histVars, envVars, dashVars>>

(***************************************************************************)
(* combine_results                                                         *)
(***************************************************************************)
\* mutant: the text table is concatenated first
CombineTextFirst(grid_df, text_df) ==
    IF grid_df = << >> /\ text_df = << >> THEN {<< >>}
    ELSE IF grid_df = << >> THEN {text_df}
    ELSE IF text_df = << >> THEN {grid_df}
    ELSE SortValues(DropDuplicates(text_df \o grid_df))

\* mutant: of two non-empty tables only the grid table is kept
CombineGridOnly(grid_df, text_df) ==
    IF grid_df = << >> /\ text_df = << >> THEN {<< >>}
    ELSE IF grid_df = << >> THEN {text_df}
    ELSE IF text_df = << >> THEN {grid_df}
    ELSE SortValues(grid_df)

\* the possible results of combine_results(grid_df, text_df)
CombineResults(grid_df, text_df) ==
    IF grid_df = << >> /\ text_df = << >> THEN {<< >>}
    ELSE IF grid_df = << >> THEN {text_df}
    ELSE IF text_df = << >> THEN {grid_df}
    ELSE SortValues(DropDuplicates(grid_df \o text_df))

(***************************************************************************)
(* __main__ of fetch_eye_hospitals_comprehensive.py.                       *)
(*                                                                         *)
(* A run of a fetch function is explored step by step from the function's  *)
(* entry (the initial states with fn = "grid" or "text").  Inside __main__ *)
(* the call is one step that yields any table the function can return,     *)
(* ReturnedTables(f); SummarySound states that the step-by-step run        *)
(* returns nothing else.                                                   *)
(***************************************************************************)
\* the rows fetch function f can store when called with min_reviews = minimum
StorableRows(f, minimum) ==
    {HospitalInfo(f, id, place_data, zone, keyword) :
        id \in PlaceIds,
        place_data \in {d \in DetailsResults(f) :
                          /\ PassesFilter(Get(d.user_ratings_total, 0), minimum)
                          /\ ~GeometryRaises(d)},
        zone \in 1..NumZones, keyword \in 1..NumKeywords}

\* the tables f can return: one row per place_id, sorted
ReturnedTables(f, minimum) ==
    {t \in SeqsUpTo(StorableRows(f, minimum), 0, Cardinality(PlaceIds)) :
        /\ \A i, j \in 1..Len(t) : t[i].place_id = t[j].place_id => i = j
        /\ IsSortedDesc(t)}

SummarySound ==
    (InFetch /\ pc = "returned") => returned[1] \in ReturnedTables(fn, min_reviews)

\* "if not use_text_only: grid_hospitals = fetch_hospitals_grid_search(
\*  min_reviews=100, search_radius=15000); all_results.append(grid_hospitals)"
CallGridSearch ==
    /\ fn = "main" /\ pc = "main_grid"
    /\ ~use_text_only
    /\ \E grid_hospitals \in ReturnedTables("grid", CliMinReviews) :
        all_results' = Append(all_results, grid_hospitals)
    /\ pc' = "main_text"
    /\ UNCHANGED <<fn, use_grid_only, use_text_only, final_df, csv_written, min_reviews,
                   loopVars, all_hospitals, total_requests, returned, basicVars,
                   histVars, envVars, dashVars>>

SkipGridSearch ==
    /\ fn = "main" /\ pc = "main_grid"
    /\ use_text_only
    /\ pc' = "main_text"
    /\ UNCHANGED <<fn, mainVars, min_reviews, loopVars, all_hospitals, total_requests,
                   returned, basicVars, histVars, envVars, dashVars>>

\* "if not use_grid_only: text_hospitals = fetch_hospitals_text_search(
\*  min_reviews=100); all_results.append(text_hospitals)"
CallTextSearch ==
    /\ fn = "main" /\ pc = "main_text"
    /\ ~use_grid_only
    /\ \E text_hospitals \in ReturnedTables("text", CliMinReviews) :
        all_results' = Append(all_results, text_hospitals)
    /\ pc' = "main_combine"
    /\ UNCHANGED <<fn, use_grid_only, use_text_only, final_df, csv_written, min_reviews,
                   loopVars, all_hospitals, total_requests, returned, basicVars,
                   histVars, envVars, dashVars>>

SkipTextSearch ==
    /\ fn = "main" /\ pc = "main_text"
    /\ use_grid_only
    /\ pc' = "main_combine"
    /\ UNCHANGED <<fn, mainVars, min_reviews, loopVars, all_hospitals, total_requests,
                   returned, basicVars, histVars, envVars, dashVars>>

\* "if len(all_results) == 2: final_df = combine_results(...)
\*  elif len(all_results) == 1: final_df = all_results[0]
\*  else: final_df = pd.DataFrame()"
Combine ==
    /\ fn = "main" /\ pc = "main_combine"
    /\ \E df \in (IF Len(all_results) = 2
                  THEN CombineResults(all_results[1], all_results[2])
                  ELSE IF Len(all_results) = 1 THEN {all_results[1]}
                  ELSE {<< >>}) :
        final_df' = Some(df)
    /\ pc' = "main_save"
    /\ UNCHANGED <<fn, use_grid_only, use_text_only, all_results, csv_written,
                   min_reviews, loopVars, all_hospitals, total_requests, returned,
                   basicVars, histVars, envVars, dashVars>>

\* mutant: the file is written without the emptiness tests
SaveAlways ==
    /\ fn = "main" /\ pc = "main_save"
    /\ csv_written' = TRUE
    /\ pc' = "done"
    /\ UNCHANGED <<fn, use_grid_only, use_text_only, all_results, final_df,
                   min_reviews, loopVars, all_hospitals, total_requests, returned,
                   basicVars, histVars, envVars, dashVars>>

\* "if not final_df.empty: ... save_hospitals_to_csv(final_df) ...
\*  else: print('No hospitals found matching criteria')"
Save ==
    /\ fn = "main" /\ pc = "main_save"
    /\ csv_written' = (final_df[1] # << >>)
    /\ pc' = "done"
    /\ UNCHANGED <<fn, use_grid_only, use_text_only, all_results, final_df,
                   min_reviews, loopVars, all_hospitals, total_requests, returned,
                   basicVars, histVars, envVars, dashVars>>

(***************************************************************************)
(* fetch_eye_hospitals.py                                                  *)
(***************************************************************************)
SampleRow(id, reviews, km) ==
    [place_id |-> id, review_count |-> reviews, latitude |-> Some(km),
     zone |-> None, keyword_found |-> None, search_method |-> None]

\* SAMPLE_EYE_HOSPITALS: place_id, review_count and the position (as the
\* distance of its latitude/longitude from BANGALORE_CENTER, rounded to km)
SAMPLE_EYE_HOSPITALS ==
    << SampleRow("sample_1", 1850, 16), SampleRow("sample_2", 2150, 4),
       SampleRow("sample_3", 1620, 5),  SampleRow("sample_4", 890, 5),
       SampleRow("sample_5", 1340, 5),  SampleRow("sample_6", 1120, 4),
       SampleRow("sample_7", 750, 5),   SampleRow("sample_8", 1200, 13),
       SampleRow("sample_9", 980, 7),   SampleRow("sample_10", 1050, 17) >>

\* "df = pd.DataFrame(SAMPLE_EYE_HOSPITALS); df = df[df['review_count'] >=
\*  min_reviews]; return df.sort_values('review_count', ascending=False)"
SampleTables(minimum) ==
    LET Keep(row) == row.review_count >= minimum
    IN SortValues(SelectSeq(SAMPLE_EYE_HOSPITALS, Keep))

\* the hospital_info literal of fetch_eye_hospitals_from_api: every field is
\* read with .get, a missing geometry gives latitude None
ApiHospitalInfo(id, place_data) ==
    [place_id |-> id,
     review_count |-> Get(place_data.user_ratings_total, 0),
     latitude |-> place_data.location,
     zone |-> None, keyword_found |-> None, search_method |-> None]

apiVars == <<hospitals, request_count, next_page_token, places_result, item_idx>>
\* what fetch_eye_hospitals_from_api never writes
apiFrame == <<envVars, dashVars, mainVars, min_reviews, zone_idx, keyword_idx, page_num,
              all_hospitals, total_requests, use_sample, hospitals_df, search_failed,
              first_calls, call_log, first_seen>>

\* "if use_sample: ... return df.sort_values(...)"
GetSample ==
    /\ fn = "get" /\ pc = "get_eye_hospitals"
    /\ use_sample
    /\ \E df \in SampleTables(min_reviews) : hospitals_df' = Some(df)
    /\ pc' = "main_save"
    /\ UNCHANGED <<fn, mainVars, min_reviews, loopVars, all_hospitals, total_requests,
                   returned, use_sample, hospitals, request_count, histVars, envVars, dashVars>>

\* "df = fetch_eye_hospitals_from_api(min_reviews)": entry into the function
CallApi ==
    /\ fn = "get" /\ pc = "get_eye_hospitals"
    /\ ~use_sample
    /\ fn' = "api"
    /\ hospitals' = << >>
    /\ next_page_token' = None
    /\ request_count' = 0
    \* "gmaps = googlemaps.Client(key=API_KEY)" returns
    /\ client_created' = TRUE
    /\ pc' = "search"
    /\ UNCHANGED <<mainVars, min_reviews, zone_idx, keyword_idx, page_num, places_result,
                   item_idx, all_hospitals, total_requests, returned, use_sample,
                   hospitals_df, histVars, api_key, exit_status, dashVars>>

\* "gmaps = googlemaps.Client(key=API_KEY)" raises: the call stands before
\* the try of fetch_eye_hospitals_from_api, nothing catches the exception
CallApiClientRaises ==
    /\ fn = "get" /\ pc = "get_eye_hospitals"
    /\ ~use_sample
    /\ pc' = "raised"
    /\ UNCHANGED <<fn, mainVars, min_reviews, loopVars, all_hospitals, total_requests,
                   returned, basicVars, histVars, envVars, dashVars>>

\* gmaps.places_nearby raises: the outer "except Exception: ... return None"
ApiSearchRaises ==
    /\ fn = "api" /\ pc = "search"
    /\ search_failed' = (hospitals # << >>)
    /\ last_search' = "raised"
    /\ returned' = None
    /\ fn' = "get"
    /\ pc' = "get_check"
    /\ last_sleep' = 0
    /\ UNCHANGED <<mainVars, min_reviews, loopVars, all_hospitals, total_requests,
                   basicVars, details_failures, accepted, first_calls, call_log,
                   first_seen,
                   token_hist, envVars, dashVars>>

\* gmaps.places_nearby returns a page; "for place in
\* places_result.get('results', [])" runs over it, also when it is empty
ApiSearchReturns ==
    /\ fn = "api" /\ pc = "search"
    /\ \E resp \in SearchResponses("api") :
        \* the modelled API: later pages are empty, the last carries no token
        /\ Len(token_hist) + 1 > MaxApiPages => resp.results = << >>
        /\ Len(token_hist) + 1 >= MaxApiCalls => resp.next_page_token = None
        /\ places_result' = resp
        /\ token_hist' = Append(token_hist, resp.next_page_token # None)
        /\ last_search' = (IF resp.results = << >> THEN "empty" ELSE "page")
        /\ IF resp.results = << >>
           THEN item_idx' = 0 /\ pc' = "token"
           ELSE item_idx' = 1 /\ pc' = "item"
    /\ request_count' = request_count + 1
    /\ details_failures' = 0
    /\ last_sleep' = 0
    /\ UNCHANGED <<fn, apiFrame, returned, hospitals, next_page_token, accepted>>

\* gmaps.place raises: "except Exception: ... continue"
ApiDetailsRaises ==
    /\ fn = "api" /\ pc = "item"
    /\ details_failures' = details_failures + 1
    /\ last_sleep' = 0
    /\ NextItem
    /\ UNCHANGED <<fn, apiFrame, returned, hospitals, request_count, next_page_token,
                   places_result, accepted, token_hist, last_search>>

\* gmaps.place returns; the review filter and hospitals.append
ApiDetailsReturns ==
    /\ fn = "api" /\ pc = "item"
    /\ \E place_data \in DetailsResults("api") :
        LET review_count == Get(place_data.user_ratings_total, 0)
            hospital_info == ApiHospitalInfo(Place.place_id, place_data)
        IN IF PassesFilter(review_count, min_reviews)
           THEN /\ hospitals' = Append(hospitals, hospital_info)
                /\ accepted' = accepted \cup {hospital_info}
           ELSE UNCHANGED <<hospitals, accepted>>
    /\ request_count' = request_count + 1
    \* "if request_count % 10 == 0: time.sleep(1)"
    /\ last_sleep' = RateLimitSleep(request_count + 1)
    /\ NextItem
    /\ UNCHANGED <<fn, apiFrame, returned, next_page_token, places_result,
                   details_failures, token_hist, last_search>>

\* "next_page_token = places_result.get('next_page_token')
\*  if not next_page_token: break" and, after the loop, "if hospitals: ...
\*  return df / else: return None"; otherwise sleep 2 s and loop
ApiCheckNextPage ==
    /\ fn = "api" /\ pc = "token"
    /\ next_page_token' = places_result.next_page_token
    /\ IF places_result.next_page_token = None
       THEN /\ \E df \in SortValues(hospitals) :
                 returned' = IF hospitals # << >> THEN Some(df) ELSE None
            /\ fn' = "get"
            /\ pc' = "get_check"
       ELSE /\ pc' = "search"
            /\ UNCHANGED <<fn, returned>>
    \* the page just processed is dead from here on and is cleared
    /\ places_result' = NoResponse
    /\ item_idx' = 0
    /\ details_failures' = (IF places_result.next_page_token = None
                            THEN 0 ELSE details_failures)
    /\ last_sleep' = (IF places_result.next_page_token = None
                      THEN last_sleep ELSE SettlingSleep("api"))
    /\ UNCHANGED <<apiFrame, hospitals, request_count, accepted, token_hist,
                   last_search>>

\* mutant: no fallback, an empty table when the API gave nothing
GetCheckNoFallback ==
    /\ fn = "get" /\ pc = "get_check"
    /\ hospitals_df' = (IF returned # None THEN Some(returned[1]) ELSE Some(<< >>))
    /\ pc' = "main_save"
    /\ UNCHANGED <<fn, mainVars, min_reviews, loopVars, all_hospitals, total_requests,
                   returned, use_sample, hospitals, request_count, histVars, envVars, dashVars>>

\* "if df is not None and len(df) > 0: return df" else the sample data
GetCheck ==
    /\ fn = "get" /\ pc = "get_check"
    /\ IF returned # None /\ Len(returned[1]) > 0
       THEN hospitals_df' = Some(returned[1])
       ELSE \E df \in SampleTables(min_reviews) : hospitals_df' = Some(df)
    /\ pc' = "main_save"
    /\ UNCHANGED <<fn, mainVars, min_reviews, loopVars, all_hospitals, total_requests,
                   returned, use_sample, hospitals, request_count, histVars, envVars, dashVars>>

\* "if not hospitals_df.empty: ... save_hospitals_to_csv(hospitals_df) ..."
BasicSave ==
    /\ fn = "get" /\ pc = "main_save"
    /\ csv_written' = (hospitals_df[1] # << >>)
    /\ pc' = "done"
    /\ UNCHANGED <<fn, use_grid_only, use_text_only, all_results, final_df,
                   min_reviews, loopVars, all_hospitals, total_requests, returned,
                   basicVars, histVars, envVars, dashVars>>

(***************************************************************************)
(* Start of the three scripts: the credential, the API client; test_api.py *)
(***************************************************************************)
\* mutant: the credential is not tested
KeyPresentAlways(key) == TRUE

\* "if not API_KEY": None and the empty string are both false
KeyPresent(key) == key # None /\ key # Some("")

\* what no step before __main__ writes
startFrame == <<fn, mainVars, min_reviews, loopVars, all_hospitals, total_requests,
               returned, basicVars, histVars, api_key, dashVars>>

\* "load_dotenv(); API_KEY = os.getenv('GOOGLE_MAPS_API_KEY'); if not
\*  API_KEY: raise ValueError(...)" in the two fetch modules, "print(...);
\*  exit(1)" in test_api.py
LoadModule ==
    /\ fn \in {"main", "get", "test"} /\ pc = "startup"
    /\ IF ~KeyPresent(api_key)
       THEN IF fn = "test"
            THEN pc' = "exited" /\ exit_status' = Some(1)
            ELSE pc' = "raised" /\ UNCHANGED exit_status
       ELSE /\ pc' = (IF fn = "get" THEN "get_eye_hospitals" ELSE "create_client")
            /\ UNCHANGED exit_status
    /\ UNCHANGED <<startFrame, client_created>>

\* "gmaps = googlemaps.Client(key=API_KEY)" at module level returns
CreateClient ==
    /\ fn \in {"main", "test"} /\ pc = "create_client"
    /\ client_created' = TRUE
    /\ pc' = (IF fn = "main" THEN "main_grid" ELSE "test_search")
    /\ UNCHANGED <<startFrame, exit_status>>

\* ... or raises: uncaught in fetch_eye_hospitals_comprehensive.py, "except
\* Exception: ... exit(1)" in test_api.py
CreateClientRaises ==
    /\ fn \in {"main", "test"} /\ pc = "create_client"
    /\ IF fn = "test"
       THEN pc' = "exited" /\ exit_status' = Some(1)
       ELSE pc' = "raised" /\ UNCHANGED exit_status
    /\ UNCHANGED <<startFrame, client_created>>

\* test_api.py: gmaps.places_nearby returns; the script prints what it got
\* and ends
TestSearchReturns ==
    /\ fn = "test" /\ pc = "test_search"
    /\ pc' = "exited"
    /\ exit_status' = Some(0)
    /\ UNCHANGED <<startFrame, client_created>>

\* test_api.py: gmaps.places_nearby raises, "except Exception: ... exit(1)"
TestSearchRaises ==
    /\ fn = "test" /\ pc = "test_search"
    /\ pc' = "exited"
    /\ exit_status' = Some(1)
    /\ UNCHANGED <<startFrame, client_created>>

(***************************************************************************)
(* surgery_dashboard.py: the eye-hospital part of the Streamlit script.    *)
(* Every user event reruns the script from the top; st.session_state       *)
(* outlives the reruns.  A filtered table is the set of the index labels   *)
(* of its rows (its order plays no part in what is shown).                 *)
(***************************************************************************)
\* rows of eye_hospitals_bangalore_comprehensive.csv as the dashboard reads
\* them: name, rating (times 10) and review_count
HospitalRows == [name : {"H1", "H2"}, rating : {39, 45}, review_count : {400, 600}]
\* the positions the user can move the two sliders to
RatingChoices == {0, DefaultMinRating}
ReviewsChoices == {400, DefaultMinReviews}

\* the set st.session_state.excluded_hospitals, empty while the key is absent
Excluded == Get(excluded_hospitals, {})

\* mutant: the excluded names are not filtered out
IsExcludedNever(name, names) == FALSE

\* "~filtered_hospitals['name'].isin(st.session_state.excluded_hospitals)"
\* keeps the rows for which this is false
IsExcluded(name, names) == name \in names

\* "hospitals[(hospitals['rating'] >= hospital_min_rating) &
\*  (hospitals['review_count'] >= hospital_min_reviews)]" followed by the
\* removal of the excluded names, as index labels
FilteredHospitals ==
    {i \in 1..Len(hospitals_table) :
        /\ hospitals_table[i].rating >= hospital_min_rating
        /\ hospitals_table[i].review_count >= hospital_min_reviews
        /\ ~IsExcluded(hospitals_table[i].name, Excluded)}

\* "show_hospitals and not hospitals.empty"
HospitalsOn == show_hospitals /\ hospitals_table # << >>

\* the review-count slider runs from the smallest to the largest
\* review_count of the table
ReviewCounts == {hospitals_table[i].review_count : i \in 1..Len(hospitals_table)}
InSliderRange(v) ==
    /\ \E c \in ReviewCounts : c <= v
    /\ \E c \in ReviewCounts : c >= v

\* what the fetch scripts never write, and the dashboard never reads
dashFrame == <<mainVars, min_reviews, loopVars, all_hospitals, total_requests, returned,
               basicVars, histVars, envVars>>

\* the sidebar: the checkbox, the two sliders, and "if 'excluded_hospitals'
\* not in st.session_state: st.session_state.excluded_hospitals = set()".
\* st.slider raises when its value lies outside min_value..max_value; the
\* run ends there and nothing below is drawn.  In a run that does not draw
\* the sliders Streamlit drops their state: they come back at their defaults.
DashSidebar ==
    /\ fn = "dashboard" /\ pc = "sidebar"
    /\ IF HospitalsOn
       THEN /\ UNCHANGED <<hospital_min_rating, hospital_min_reviews>>
            /\ IF InSliderRange(hospital_min_reviews)
               THEN /\ excluded_hospitals' = Some(Excluded)
                    /\ pc' = "map"
                    /\ UNCHANGED <<pressed, filtered_hospitals,
                                   filtered_hospitals_display>>
               ELSE /\ pc' = "raised"
                    /\ pressed' = None
                    /\ filtered_hospitals' = {}
                    /\ filtered_hospitals_display' = {}
                    /\ UNCHANGED excluded_hospitals
       ELSE /\ pc' = "map"
            /\ hospital_min_rating' = DefaultMinRating
            /\ hospital_min_reviews' = DefaultMinReviews
            /\ UNCHANGED <<excluded_hospitals, pressed, filtered_hospitals,
                           filtered_hospitals_display>>
    /\ UNCHANGED <<fn, dashFrame, hospitals_table, show_hospitals>>

\* "# Add hospital markers": one marker per row of filtered_hospitals
DashMap ==
    /\ fn = "dashboard" /\ pc = "map"
    /\ filtered_hospitals' = (IF HospitalsOn THEN FilteredHospitals ELSE {})
    /\ pc' = "management"
    /\ UNCHANGED <<fn, dashFrame, hospitals_table, show_hospitals, hospital_min_rating,
                   hospital_min_reviews, excluded_hospitals, pressed,
                   filtered_hospitals_display>>

\* "# Hospital management section": the list with one Remove button per
\* row.  The button the user pressed returns True in this run:
\* "st.session_state.excluded_hospitals.add(hospital['name']); st.rerun()"
DashManagement ==
    /\ fn = "dashboard" /\ pc = "management"
    /\ filtered_hospitals_display' = (IF HospitalsOn THEN FilteredHospitals ELSE {})
    /\ pressed' = None
    /\ IF HospitalsOn /\ pressed # None /\ pressed[1] \in FilteredHospitals
       THEN /\ excluded_hospitals' =
                   Some(Excluded \cup {hospitals_table[pressed[1]].name})
            /\ pc' = "sidebar"
       ELSE /\ pc' = "idle"
            /\ UNCHANGED excluded_hospitals
    /\ UNCHANGED <<fn, dashFrame, hospitals_table, show_hospitals, hospital_min_rating,
                   hospital_min_reviews, filtered_hospitals>>

\* the user presses the Remove button of a row of the list; the script reruns
PressRemove ==
    /\ fn = "dashboard" /\ pc = "idle"
    /\ \E idx \in filtered_hospitals_display : pressed' = Some(idx)
    /\ pc' = "sidebar"
    /\ UNCHANGED <<fn, dashFrame, hospitals_table, show_hospitals, hospital_min_rating,
                   hospital_min_reviews, excluded_hospitals, filtered_hospitals,
                   filtered_hospitals_display>>

\* the user moves a slider or ticks the checkbox; the script reruns.  The
\* sliders are there only while the hospitals are shown.
ChangeFilters ==
    /\ fn = "dashboard" /\ pc = "idle"
    /\ \E show \in BOOLEAN, rating \in RatingChoices, reviews \in ReviewsChoices :
        /\ <<show, rating, reviews>>
              # <<show_hospitals, hospital_min_rating, hospital_min_reviews>>
        /\ ~HospitalsOn =>
              <<rating, reviews>> = <<hospital_min_rating, hospital_min_reviews>>
        /\ InSliderRange(reviews)
        /\ show_hospitals' = show
        /\ hospital_min_rating' = rating
        /\ hospital_min_reviews' = reviews
    /\ pc' = "sidebar"
    /\ UNCHANGED <<fn, dashFrame, hospitals_table, excluded_hospitals, pressed,
                   filtered_hospitals, filtered_hospitals_display>>

(***************************************************************************)
(* Initial states and next-state relation                                  *)
(***************************************************************************)
\* The code whose run is explored: fetch_eye_hospitals_comprehensive.py run
\* as a script, one of its fetch functions from its entry (called with
\* min_reviews=100 as __main__ does), fetch_eye_hospitals.py run as a script,
\* or test_api.py.
Start ==
    /\ fn \in {"main", "grid", "text", "get", "test", "dashboard"}
    /\ pc = (IF InFetch THEN "search" ELSE IF fn = "dashboard" THEN "sidebar" ELSE "startup")
    \* a script starts in any environment; a fetch function is entered with
    \* the module loaded and its client created
    \* (the dashboard does not read the credential)
    /\ api_key \in (IF InFetch \/ fn = "dashboard" THEN {Some("key")}
                    ELSE {None, Some(""), Some("key")})
    /\ client_created = InFetch
    /\ exit_status = None
    \* the dashboard's first run in a new session, with any table loaded;
    \* "value=True if not hospitals.empty else False", the slider defaults
    /\ hospitals_table \in (IF fn = "dashboard" THEN SeqsUpTo(HospitalRows, 0, MaxHospitals)
                            ELSE {<< >>})
    /\ show_hospitals = (hospitals_table # << >>)
    /\ hospital_min_rating = DefaultMinRating
    /\ hospital_min_reviews = DefaultMinReviews
    /\ excluded_hospitals = None
    /\ pressed = None
    /\ filtered_hospitals = {}
    /\ filtered_hospitals_display = {}
    /\ use_grid_only \in (IF fn = "main" THEN BOOLEAN ELSE {FALSE})
    /\ use_text_only \in (IF fn = "main" THEN BOOLEAN ELSE {FALSE})
    /\ use_sample \in (IF fn = "get" THEN BOOLEAN ELSE {FALSE})
    /\ all_results = << >>
    /\ final_df = None
    /\ hospitals_df = None
    /\ csv_written = FALSE
    \* get_eye_hospitals(min_reviews, use_sample) is run for several values of
    \* its argument; 100 is the one its __main__ passes
    /\ min_reviews \in (IF fn = "get" THEN MinReviewsArgs ELSE {CliMinReviews})
    /\ zone_idx = (IF fn = "grid" THEN 1 ELSE 0)
    /\ keyword_idx = (IF InFetch THEN 1 ELSE 0)
    /\ next_page_token = None
    /\ page_num = 0
    /\ places_result = NoResponse
    /\ item_idx = 0
    /\ all_hospitals = << >>
    /\ total_requests = 0
    /\ hospitals = << >>
    /\ request_count = 0
    /\ returned = None
    /\ search_failed = FALSE
    /\ details_failures = 0
    /\ accepted = {}
    /\ first_calls = {}
    /\ call_log = << >>
    /\ last_sleep = 0
    /\ last_search = "none"
    /\ token_hist = << >>

Init ==
    /\ Start
    /\ first_seen = NotRecorded

Next ==
    \/ SearchRaises
    \/ SearchReturns
    \/ ItemNoLocation
    \/ ItemTooFar
    \/ ItemAlreadyFound
    \/ DetailsRaises
    \/ DetailsReturns
    \/ CheckNextPage
    \/ ReturnTable
    \/ CallGridSearch
    \/ SkipGridSearch
    \/ CallTextSearch
    \/ SkipTextSearch
    \/ Combine
    \/ Save
    \/ GetSample
    \/ CallApi
    \/ ApiSearchRaises
    \/ ApiSearchReturns
    \/ ApiDetailsRaises
    \/ ApiDetailsReturns
    \/ ApiCheckNextPage
    \/ GetCheck
    \/ BasicSave
    \/ CallApiClientRaises
    \/ LoadModule
    \/ CreateClient
    \/ CreateClientRaises
    \/ TestSearchReturns
    \/ TestSearchRaises
    \/ DashSidebar
    \/ DashMap
    \/ DashManagement
    \/ PressRemove
    \/ ChangeFilters

Spec == Init /\ [][Next]_vars

\* the steps of fetch_hospitals_grid_search and fetch_hospitals_text_search
FetchStep ==
    \/ SearchRaises
    \/ SearchReturns
    \/ ItemNoLocation
    \/ ItemTooFar
    \/ ItemAlreadyFound
    \/ DetailsRaises
    \/ DetailsReturns
    \/ CheckNextPage
    \/ ReturnTable

\* The fetch functions are single-threaded Python: the interpreter always
\* runs the next statement, every time.sleep ends, and an external call
\* either returns or raises.  A fetch function therefore never stops while
\* it has a step to take.
FairSpec == Spec /\ WF_vars(FetchStep)

\* A run of one fetch function from its entry in which the sightings of the
\* grid search are recorded in first_seen.
ProvenanceInit ==
    /\ Start
    /\ InFetch
    /\ first_seen = [id \in PlaceIds |-> None]

ProvenanceSpec == ProvenanceInit /\ [][FetchStep]_vars

(***************************************************************************)
(* Claims                                                                  *)
(***************************************************************************)
NoDuplicateIds(t) == \A i, j \in 1..Len(t) : t[i].place_id = t[j].place_id => i = j
AllAtLeast(t, minimum) == \A i \in 1..Len(t) : t[i].review_count >= minimum
\* the row of table t with the given place_id
RowOf(t, id) == CHOOSE r \in Rows(t) : r.place_id = id
FetchReturned == InFetch /\ pc = "returned"
MainFinished == fn = "main" /\ pc \in {"main_save", "done"}

\* C1: in the grid and text search every row in the all_hospitals store has
\* review_count >= min_reviews, and so has every row of a returned table, of
\* the tables __main__ collects and of the table it builds from them.
C1_ReviewFilter ==
    /\ AllAtLeast(all_hospitals, min_reviews)
    /\ FetchReturned => AllAtLeast(returned[1], min_reviews)
    /\ SummarySound
    /\ \A i \in 1..Len(all_results) : AllAtLeast(all_results[i], min_reviews)
    /\ MainFinished => AllAtLeast(final_df[1], min_reviews)

\* a fetch function holds a row exactly at the threshold and returns it
C1_Witness ==
    /\ FetchReturned
    /\ \E r \in Rows(returned[1]) : r.review_count = min_reviews
    /\ Len(returned[1]) = 2

\* C2: no table the comprehensive pipeline produces has two rows with the
\* same place_id: the table returned by the grid search, the one returned
\* by the text search, and the final table of __main__ whether it comes
\* from combine_results (any of the four empty/non-empty combinations) or
\* from a single strategy.
C2_UniqueIds ==
    /\ NoDuplicateIds(all_hospitals)
    /\ FetchReturned => NoDuplicateIds(returned[1])
    /\ SummarySound
    /\ MainFinished => NoDuplicateIds(final_df[1])

\* combine_results has merged two non-empty tables that share a place
C2_Witness ==
    /\ MainFinished
    /\ Len(all_results) = 2
    /\ Ids(all_results[1]) \cap Ids(all_results[2]) # {}
    /\ Ids(all_results[1]) # Ids(all_results[2])

\* C3: while a fetch function runs, a row stored under a place_id is never
\* changed, moved or removed: every step leaves each stored row in place.
C3_FirstSightingWins ==
    [][InFetch =>
         /\ Len(all_hospitals') >= Len(all_hospitals)
         /\ \A i \in 1..Len(all_hospitals) : all_hospitals'[i] = all_hospitals[i]]_vars

\* a place that is already stored is sighted again by a later query
C3_Witness ==
    /\ fn = "grid" /\ pc = "item"
    /\ \E i \in 1..Len(all_hospitals) :
          /\ all_hospitals[i].place_id = Place.place_id
          /\ all_hospitals[i].zone # Some(zone_idx)
          /\ all_hospitals[i].keyword_found # Some(keyword_idx)

\* C4: when __main__ combines the grid table and the text table, every
\* place_id present in both keeps the grid table's row, and the combined
\* table is sorted by review_count descending.
C4_GridPriority ==
    (MainFinished /\ Len(all_results) = 2) =>
        /\ \A id \in Ids(all_results[1]) \cap Ids(all_results[2]) :
              RowOf(final_df[1], id) = RowOf(all_results[1], id)
        /\ IsSortedDesc(final_df[1])

\* a place is in both tables with different review counts
C4_Witness ==
    /\ MainFinished /\ Len(all_results) = 2
    /\ \E id \in Ids(all_results[1]) \cap Ids(all_results[2]) :
          RowOf(all_results[1], id).review_count
              # RowOf(all_results[2], id).review_count

\* C5: every table handed on is sorted by review_count non-increasing: the
\* returns of the grid search, the text search, fetch_eye_hospitals_from_api
\* and get_eye_hospitals (API path and sample path), and the final table of
\* the comprehensive __main__ (combine_results with its shortcuts).
C5_SortedOutput ==
    /\ FetchReturned => IsSortedDesc(returned[1])
    /\ SummarySound
    /\ (fn = "get" /\ pc = "get_check" /\ returned # None) => IsSortedDesc(returned[1])
    /\ hospitals_df # None => IsSortedDesc(hospitals_df[1])
    /\ final_df # None => IsSortedDesc(final_df[1])

\* the grid search stored a smaller row before a larger one and returned
\* them in the other order
C5_Witness ==
    /\ FetchReturned /\ fn = "grid"
    /\ Len(all_hospitals) = 2
    /\ all_hospitals[1].review_count < all_hospitals[2].review_count
    /\ returned[1][1] = all_hospitals[2]

\* the table get_eye_hospitals receives from fetch_eye_hospitals_from_api
\* (None counts as no rows)
ApiReturned == fn = "get" /\ pc = "get_check"
ReturnedRows == IF returned = None THEN {} ELSE Rows(returned[1])

\* C6 as stated: after a search call has raised, every record accepted earlier
\* in the run is in the table the function returns, in the grid search, the
\* text search and fetch_eye_hospitals_from_api.
C6_Original ==
    /\ FetchReturned => accepted \subseteq Rows(returned[1])
    /\ ApiReturned => accepted \subseteq ReturnedRows

\* C6 (amended): in the grid search and the text search a search call that
\* raises costs only the current query: every record accepted so far stays
\* in the store and is in the returned table.  In
\* fetch_eye_hospitals_from_api a search call that raises after records were
\* accepted makes the function return None; without such a failure the
\* accepted records are the returned rows.
C6_SearchFailureKeepsRecords ==
    /\ InFetch => accepted \subseteq Rows(all_hospitals)
    /\ FetchReturned => accepted \subseteq Rows(returned[1])
    /\ ApiReturned => IF search_failed
                      THEN returned = None
                      ELSE accepted \subseteq ReturnedRows

\* a search call raised after two records had been accepted, and the grid
\* search has returned
C6_Witness ==
    /\ FetchReturned /\ fn = "grid"
    /\ search_failed
    /\ Cardinality(accepted) = 2

\* the first-page search calls of the whole run
AllFirstCalls(f) ==
    IF f = "grid"
    THEN {<<"grid", z, k>> : z \in 1..NumZones, k \in 1..NumKeywords}
    ELSE {<<"text", 0, k>> : k \in 1..NumKeywords}

\* C7: whatever calls fail, a run of the grid search eventually has issued
\* the first-page search call of every (zone, keyword) pair and has returned,
\* and a run of the text search that of every keyword.
C7_EveryQueryIssued ==
    <>(InFetch => (pc = "returned" /\ first_calls = AllFirstCalls(fn)))

\* a search call raised after a record had been stored, and the function
\* has gone through every query and returned
C7_Witness ==
    /\ FetchReturned
    /\ search_failed
    /\ first_calls = AllFirstCalls(fn)

\* C8: a details call that raises skips only its item.  The step stays in
\* the same query and page and leaves the page and the stored records as
\* they are; it goes to the next item of the page, or after the last item to
\* the continuation-token check.  On a page where a details call raised, a
\* token that is present is still followed while the page cap allows.
C8_DetailsFailureSkipsItem ==
    [][/\ details_failures' > details_failures =>
            /\ fn' = fn /\ zone_idx' = zone_idx /\ keyword_idx' = keyword_idx
            /\ page_num' = page_num /\ places_result' = places_result
            /\ all_hospitals' = all_hospitals /\ hospitals' = hospitals
            /\ IF item_idx < Len(places_result.results)
               THEN pc' = "item" /\ item_idx' = item_idx + 1
               ELSE pc' = "token"
       /\ (/\ pc = "token" /\ details_failures > 0
           /\ places_result.next_page_token # None
           /\ fn = "grid" => page_num < 3
           /\ fn = "text" => page_num < 2) =>
            /\ pc' = "search"
            /\ next_page_token' = places_result.next_page_token
            /\ fn' = fn /\ zone_idx' = zone_idx /\ keyword_idx' = keyword_idx]_vars

\* a details call raised on a page and the token of that page is being
\* followed
C8_Witness ==
    /\ InFetch /\ pc = "search"
    /\ next_page_token # None
    /\ details_failures >= 1

\* C9 as stated: no record stored or returned by a fetch function has a
\* missing position (grid search, text search, fetch_eye_hospitals_from_api).
C9_NoMissingLocation ==
    /\ \A r \in Rows(all_hospitals) : r.latitude # None
    /\ \A r \in Rows(hospitals) : r.latitude # None
    /\ \A r \in ReturnedRows : r.latitude # None

\* C10 as stated: after two consecutive pages that carried a token the query
\* goes on to a third page, and no query goes beyond its cap.
C10_Original ==
    [][/\ (InFetch /\ pc = "token" /\ token_hist = <<TRUE, TRUE>>) => pc' = "search"
       /\ fn = "grid" => page_num <= 3
       /\ fn = "text" => page_num <= 2]_vars

\* C10 (amended): a query follows the continuation token while the page is
\* not empty, carries a token and the page cap (3 in the grid search, 2 in
\* the text search) is not reached, and ends otherwise.  In the grid search
\* two pages with a token followed by one without make exactly 3 pages; in
\* the text search the query ends after page 2 whatever the token.  No query
\* issues a search call once it has processed as many pages as its cap.
C10_Pagination ==
    [][/\ fn = "grid" => page_num <= 3 /\ (pc = "search" => page_num < 3)
       /\ fn = "text" => page_num <= 2 /\ (pc = "search" => page_num < 2)
       /\ InFetch => Len(token_hist) = page_num
       /\ (InFetch /\ pc = "token") =>
            IF /\ places_result.next_page_token # None
               /\ page_num < (IF fn = "grid" THEN 3 ELSE 2)
            THEN /\ pc' = "search" /\ page_num' = page_num
                 /\ next_page_token' = places_result.next_page_token
                 /\ zone_idx' = zone_idx /\ keyword_idx' = keyword_idx
            ELSE /\ page_num' = 0
                 /\ <<zone_idx', keyword_idx'>> # <<zone_idx, keyword_idx>>
                       \/ pc' = "return"]_vars

\* the grid search has processed a third page, after two pages with a token,
\* and the third carries none
C10_Witness ==
    /\ fn = "grid" /\ pc = "token"
    /\ page_num = 3
    /\ token_hist = <<TRUE, TRUE, FALSE>>

\* the Cartesian product of the zone list and the keyword list, zone first
RECURSIVE ZoneMajor(_, _)
ZoneMajor(zone, keyword) ==
    IF zone > NumZones THEN << >>
    ELSE <<SearchCall("grid", zone, keyword)>> \o
         (IF keyword < NumKeywords THEN ZoneMajor(zone, keyword + 1)
          ELSE ZoneMajor(zone + 1, 1))

\* C11: in a run of the grid search the first-page search calls issued so
\* far are a prefix of the zone-major product of zones and keywords, all
\* with the same radius, and at the return they are the whole product, each
\* pair once.  (It holds with or without failures, so for a failure-free
\* run too.)
C11_ZoneMajorOrder ==
    fn = "grid" =>
        /\ Len(call_log) <= NumZones * NumKeywords
        /\ call_log = SubSeq(ZoneMajor(1, 1), 1, Len(call_log))
        /\ pc \in {"return", "returned"} => call_log = ZoneMajor(1, 1)

\* the grid search has returned after a run in which no search call failed
\* after a record was stored, and records of both zones were stored
C11_Witness ==
    /\ FetchReturned /\ fn = "grid"
    /\ Len(call_log) = NumZones * NumKeywords
    /\ ~search_failed
    /\ \E r1, r2 \in Rows(returned[1]) : r1.zone = Some(1) /\ r2.zone = Some(NumZones)

\* the step is a details call: gmaps.place returned (the request counter
\* went up at an item) or raised
DetailsCallStep ==
    /\ pc = "item"
    /\ total_requests' = total_requests + 1 \/ details_failures' = details_failures + 1

\* C12: in the text search a result more than 50 km from the centre is
\* passed over: the step that handles it issues no details call and stores
\* nothing.  A result at 50 km or less (49 km, exactly 50 km) goes on to the
\* details call unless its place_id is already stored.
C12_DistanceFilter ==
    [][(fn = "text" /\ pc = "item" /\ Place.location # None) =>
          IF Place.location[1] > 50
          THEN /\ ~DetailsCallStep
               /\ all_hospitals' = all_hospitals
               /\ accepted' = accepted
          ELSE ~HasKey(all_hospitals, Place.place_id) => DetailsCallStep]_vars

\* a page whose first result is 51 km away and whose second is at exactly
\* 50 km: the first was passed over without a details call (the one request
\* counted is the search call) and the second was stored
C12_Witness ==
    /\ fn = "text" /\ pc = "token"
    /\ Len(places_result.results) = 2
    /\ places_result.results[1].location = Some(51)
    /\ places_result.results[2].location = Some(50)
    /\ places_result.results[1].place_id # places_result.results[2].place_id
    /\ total_requests = 2
    /\ Ids(all_hospitals) = {places_result.results[2].place_id}

\* get_eye_hospitals has returned to the __main__ of fetch_eye_hospitals.py
GetReturned == fn = "get" /\ pc \in {"main_save", "done"}

\* C13: get_eye_hospitals always returns a table.  When
\* fetch_eye_hospitals_from_api gave None (a search call raised, or no
\* record was accepted) the table holds exactly the sample hospitals with
\* review_count >= min_reviews, sorted.  With min_reviews = 100 the table is
\* not empty and the CSV file is written.
C13_SampleFallback ==
    /\ GetReturned => hospitals_df # None
    /\ (GetReturned /\ returned = None) =>
          /\ Rows(hospitals_df[1]) =
                {r \in Rows(SAMPLE_EYE_HOSPITALS) : r.review_count >= min_reviews}
          /\ Len(hospitals_df[1]) = Cardinality(Rows(hospitals_df[1]))
          /\ IsSortedDesc(hospitals_df[1])
    /\ (GetReturned /\ min_reviews = 100) => hospitals_df[1] # << >>
    /\ (fn = "get" /\ pc = "done" /\ min_reviews = 100) => csv_written

\* the API path was taken, a search call raised after a record had been
\* accepted, and the run ended with the ten sample hospitals written
C13_Witness ==
    /\ fn = "get" /\ pc = "done"
    /\ ~use_sample /\ search_failed /\ returned = None
    /\ min_reviews = 100
    /\ Len(hospitals_df[1]) = 10
    /\ csv_written

\* C14: when the comprehensive __main__ has ended, the CSV file has been
\* written if and only if the final table is not empty.  With both flags no
\* strategy has run, the final table is empty and no file is written; with
\* one flag only that strategy has run and its table is the final table.
\* Before the end nothing is written, and a final table is always there to
\* save.
C14_CsvIffNonEmpty ==
    fn = "main" =>
        /\ pc # "done" => ~csv_written
        /\ pc \in {"main_save", "done"} => final_df # None
        /\ pc = "done" =>
              /\ csv_written <=> final_df[1] # << >>
              /\ (use_grid_only /\ use_text_only) =>
                    /\ all_results = << >>
                    /\ final_df[1] = << >>
                    /\ ~csv_written
              /\ (use_grid_only /\ ~use_text_only) =>
                    /\ Len(all_results) = 1 /\ final_df[1] = all_results[1]
                    /\ \A r \in Rows(final_df[1]) : r.zone # None
              /\ (use_text_only /\ ~use_grid_only) =>
                    /\ Len(all_results) = 1 /\ final_df[1] = all_results[1]
                    /\ \A r \in Rows(final_df[1]) : r.search_method = Some("text_search")

\* both flags were passed: the run has ended with no strategy run and no file
C14_Witness ==
    /\ fn = "main" /\ pc = "done"
    /\ use_grid_only /\ use_text_only
    /\ ~csv_written

\* the request counter of the running fetch function
RequestCounter == IF fn = "api" THEN request_count ELSE total_requests

\* the step issues an external call: every step taken at the search call,
\* and at an item the steps in which gmaps.place returns or raises
ExternalCallStep ==
    /\ fn \in {"grid", "text", "api"}
    /\ \/ pc = "search"
       \/ /\ pc = "item"
          /\ \/ total_requests' = total_requests + 1
             \/ request_count' = request_count + 1
             \/ details_failures' = details_failures + 1

\* C15 as stated: when the request counter stands at a positive multiple of
\* 10, a sleep of one second (or more) has run since the call that brought
\* it there, before the next external call is issued.
C15_RateLimit ==
    [][(ExternalCallStep /\ RequestCounter > 0 /\ RequestCounter % 10 = 0) =>
          last_sleep >= 1000]_vars

\* C16: a search call that carries a continuation token is issued right
\* after the settling sleep (1 second in the grid and the text search, 2
\* seconds in fetch_eye_hospitals_from_api), with no other external call in
\* between, and the token is the one the previous page of the same query
\* carried.  The first call of every query carries no token.
C16_SettlingSleep ==
    /\ (InFetch /\ pc = "search") =>
          /\ page_num = 0 => next_page_token = None
          /\ next_page_token # None =>
                /\ page_num >= 1
                /\ token_hist[page_num]
                /\ last_sleep = 1000
    /\ (fn = "api" /\ pc = "search") =>
          /\ token_hist = << >> => next_page_token = None
          /\ next_page_token # None =>
                /\ token_hist # << >>
                /\ token_hist[Len(token_hist)]
                /\ last_sleep = 2000

\* the text search is about to fetch the second page of its second query
\* with the token of the first page
C16_Witness ==
    /\ fn = "text" /\ pc = "search"
    /\ keyword_idx = 2 /\ page_num = 1
    /\ next_page_token # None
    /\ last_sleep = 1000

\* C17: in the grid search and the text search every details call, whether
\* it returns or raises, is for a place_id that has no record in the store.
C17_NoRedundantDetails ==
    [][(InFetch /\ DetailsCallStep) => ~HasKey(all_hospitals, Place.place_id)]_vars

\* the second query of the text search returned one result, in range, whose
\* place_id the first query had stored: it was passed over with no details
\* call (the three requests are two search calls and one details call)
C17_Witness ==
    /\ fn = "text" /\ pc = "token" /\ keyword_idx = 2
    /\ Len(places_result.results) = 1
    /\ places_result.results[1].location = Some(49)
    /\ HasKey(all_hospitals, places_result.results[1].place_id)
    /\ Len(all_hospitals) = 1
    /\ total_requests = 3
    /\ details_failures = 0

\* C18: when GOOGLE_MAPS_API_KEY is absent (or empty) a script ends at its
\* first step: the two fetch modules raise, test_api.py exits with status
\* 1.  No API client has been created and no external call has been made.
C18_MissingKeyFatal ==
    (api_key = None \/ api_key = Some("")) =>
        /\ pc \in {"startup", "raised", "exited"}
        /\ (fn \in {"main", "get"} /\ pc # "startup") => pc = "raised"
        /\ (fn = "test" /\ pc # "startup") => (pc = "exited" /\ exit_status = Some(1))
        /\ ~client_created
        /\ total_requests = 0 /\ request_count = 0 /\ call_log = << >>

\* test_api.py has been run without the credential and has exited with
\* status 1
C18_Witness ==
    /\ fn = "test" /\ pc = "exited"
    /\ api_key = None
    /\ exit_status = Some(1)
    /\ ~client_created

\* C19: in the grid search and the text search a search call that returns a
\* response with no results ends its query at once: no item is processed,
\* the token of that response is not followed (the next call, if any, is the
\* first call of another query, with no token), the store is unchanged and
\* no failure is recorded.
C19_EmptyResponse ==
    [][(/\ InFetch /\ pc = "search"
        /\ total_requests' = total_requests + 1
        /\ places_result'.results = << >>) =>
          /\ pc' \in {"search", "return"}
          /\ pc' = "search" => <<zone_idx', keyword_idx'>> # <<zone_idx, keyword_idx>>
          /\ page_num' = 0 /\ next_page_token' = None
          /\ all_hospitals' = all_hospitals /\ accepted' = accepted
          /\ search_failed' = search_failed
          /\ last_search' = "empty"]_vars

\* the first query of the grid search stored a record from its first page
\* and followed the token; the second page had no results, and the search
\* is at the first call of the second query with the record still stored
C19_Witness ==
    /\ fn = "grid" /\ pc = "search"
    /\ last_search = "empty"
    /\ zone_idx = 1 /\ keyword_idx = 2
    /\ page_num = 0 /\ next_page_token = None
    /\ Len(all_hospitals) = 1
    /\ total_requests = 3

\* the position of the row with the given place_id in table t
PositionOf(t, id) == CHOOSE k \in 1..Len(t) : t[k].place_id = id

\* rows of t with equal review_count stand in the order they have in source
TiesFollow(t, source) ==
    \A i, j \in 1..Len(t) :
        (i < j /\ t[i].review_count = t[j].review_count) =>
            PositionOf(source, t[i].place_id) < PositionOf(source, t[j].place_id)

\* C20 as stated: in the table a fetch function returns, rows with equal
\* review_count stand in the order in which their records were inserted
\* into the store; in the table combine_results builds from two non-empty
\* tables they stand in the order of the concatenation, grid rows before
\* text rows.
C20_StableTies ==
    /\ FetchReturned => TiesFollow(returned[1], all_hospitals)
    /\ (MainFinished /\ Len(all_results) = 2
          /\ all_results[1] # << >> /\ all_results[2] # << >>) =>
            TiesFollow(final_df[1], DropDuplicates(all_results[1] \o all_results[2]))

\* the query a grid record is stamped with
QueryOf(row) == <<row.zone[1], row.keyword_found[1]>>

\* query q1 is q2 or comes before it in zone-major order
ZoneMajorLeq(q1, q2) == q1[1] < q2[1] \/ (q1[1] = q2[1] /\ q1[2] <= q2[2])

\* C21 as stated: every record the grid search returns is stamped with the
\* first query, in zone-major order, whose search results held its place_id.
C21_Original ==
    (fn = "grid" /\ pc = "returned") =>
        \A r \in Rows(returned[1]) : first_seen[r.place_id] = Some(QueryOf(r))

\* C21 (amended): a grid record is stamped with the zone and the keyword of
\* the query that was running when it was stored, that is the first query in
\* which a sighting of the place led to a details response that passed the
\* filter and had a position.  That query is the first one whose results
\* held the place_id or a later one: a sighting whose details call raised,
\* fell below min_reviews or lacked a geometry leaves no record.  Once
\* stored, a record is not changed by later sightings, and the returned
\* table holds exactly the stored records.
C21_Provenance ==
    [][fn = "grid" =>
         /\ \A i \in 1..Len(all_hospitals) : all_hospitals'[i] = all_hospitals[i]
         /\ Len(all_hospitals') > Len(all_hospitals) =>
               /\ pc = "item"
               /\ all_hospitals' = Append(all_hospitals, all_hospitals'[Len(all_hospitals')])
               /\ all_hospitals'[Len(all_hospitals')].place_id = Place.place_id
               /\ QueryOf(all_hospitals'[Len(all_hospitals')]) = <<zone_idx, keyword_idx>>
         /\ \A r \in Rows(all_hospitals') :
               /\ first_seen'[r.place_id] # None
               /\ ZoneMajorLeq(first_seen'[r.place_id][1], QueryOf(r))
         /\ pc' = "returned" => Rows(returned'[1]) = Rows(all_hospitals)]_vars

\* a place first sighted by query (1, 1) left no record there, was stored by
\* query (1, 2), and is sighted again in zone 2
C21_Witness ==
    /\ fn = "grid" /\ pc = "item" /\ zone_idx = 2
    /\ first_seen # NotRecorded
    /\ first_seen[Place.place_id] = Some(<<1, 1>>)
    /\ \E i \in 1..Len(all_hospitals) :
          /\ all_hospitals[i].place_id = Place.place_id
          /\ QueryOf(all_hospitals[i]) = <<1, 2>>

\* C22 as stated: fetch_eye_hospitals_from_api never holds or returns two
\* rows with the same place_id, whether the place came twice on one page or
\* on two pages of the query.
C22_ApiUniqueIds ==
    /\ NoDuplicateIds(hospitals)
    /\ (ApiReturned /\ returned # None) => NoDuplicateIds(returned[1])

\* C23 as stated: the single query of fetch_eye_hospitals_from_api issues no
\* more search calls than a maximum-pages limit, here the limit the grid
\* search applies to the same places_nearby call, also when every page
\* carries a continuation token.
C23_PageLimit ==
    fn = "api" => Len(token_hist) <= GridMaxPages

\* C24 as stated: every record the text search stores or returns has its
\* stored position within 50 km of BANGALORE_CENTER.
C24_StoredWithinRange ==
    fn = "text" =>
        /\ \A r \in Rows(all_hospitals) : r.latitude[1] <= MaxDistanceKm
        /\ pc = "returned" => \A r \in Rows(returned[1]) : r.latitude[1] <= MaxDistanceKm

\* C25: when __main__ has combined the grid table and the text table, the
\* place_ids of the result are exactly those of the two tables together and
\* every row of the result is a row of one of them, whichever of the two
\* tables is empty.
C25_CombineUnion ==
    (MainFinished /\ Len(all_results) = 2) =>
        /\ Ids(final_df[1]) = Ids(all_results[1]) \cup Ids(all_results[2])
        /\ Rows(final_df[1]) \subseteq Rows(all_results[1]) \cup Rows(all_results[2])

\* the grid table holds one place, the text table that place and another
\* one, and the combined table has both
C25_Witness ==
    /\ MainFinished /\ Len(all_results) = 2
    /\ Len(all_results[1]) = 1 /\ Len(all_results[2]) = 2
    /\ Ids(all_results[1]) \subseteq Ids(all_results[2])
    /\ Len(final_df[1]) = 2

\* the names in st.session_state.excluded_hospitals after the step
ExcludedAfter == Get(excluded_hospitals', {})

\* C26: in the dashboard no step changes the loaded hospitals table and the
\* excluded set never loses a name.  The set grows only in the run that
\* handles a pressed Remove button, by the name of that button's hospital
\* and by nothing else, with the filters left as they are.  Whenever a run
\* of the script has ended, after any removals and filter changes, no
\* hospital on the map or in the management list has a name in the excluded
\* set, so every hospital sharing a removed name is gone too.
C26_DashboardExclusion ==
    [][fn = "dashboard" =>
         /\ hospitals_table' = hospitals_table
         /\ Excluded \subseteq ExcludedAfter
         /\ ExcludedAfter # Excluded =>
               /\ pressed # None
               /\ ExcludedAfter = Excluded \cup {hospitals_table[pressed[1]].name}
               /\ UNCHANGED <<show_hospitals, hospital_min_rating, hospital_min_reviews>>
         /\ pc' = "idle" =>
               \A i \in filtered_hospitals' \cup filtered_hospitals_display' :
                   hospitals_table[i].name \notin ExcludedAfter]_vars

\* two hospitals share the name H1 and pass the filters; H1 has been
\* removed, a slider has been moved since, and the map and the list show
\* the one remaining hospital, H2
C26_Witness ==
    /\ fn = "dashboard" /\ pc = "idle"
    /\ Excluded = {"H1"}
    /\ hospital_min_reviews # DefaultMinReviews
    /\ Len(hospitals_table) = 3
    /\ \E i, j, k \in 1..3 :
          /\ i # j
          /\ hospitals_table[i].name = "H1" /\ hospitals_table[j].name = "H1"
          /\ hospitals_table[k].name = "H2"
          /\ \A n \in {i, j, k} :
                /\ hospitals_table[n].rating >= hospital_min_rating
                /\ hospitals_table[n].review_count >= hospital_min_reviews
          /\ filtered_hospitals = {k}
          /\ filtered_hospitals_display = {k}

====
